---- MODULE Spec2Model ----
(***************************************************************************)
(* QuantX: the portfolio backtester (backtester.py) and the signal         *)
(* generators (strategies.py) as state machines.                           *)
(*                                                                         *)
(* Numbers.  The program computes in floating point.  A number is modelled *)
(* as an exact rational <<num, den>> in lowest terms with den > 0, and the *)
(* floating point "not a number" as NaN == <<0, 0>>.  Every arithmetic     *)
(* operator propagates NaN the way IEEE arithmetic does (0 * NaN = NaN).   *)
(* Rounding errors of floating point are outside the model.                *)
(***************************************************************************)
EXTENDS Integers, Sequences, FiniteSets, TLC

(***************************************************************************)
(* Bounds of the model.                                                    *)
(***************************************************************************)
MaxDates == 3       \* calendar dates that any instrument may observe
MaxTickers == 2     \* instruments in the portfolio
MaxRuns == 2        \* calls of run() on one PortfolioBacktest object

(***************************************************************************)
(* Floating point values.                                                  *)
(***************************************************************************)
NaN == <<0, 0>>

IsNaN(x) == x[2] = 0

Abs(i) == IF i < 0 THEN -i ELSE i

RECURSIVE GCD(_, _)
GCD(a, b) == IF b = 0 THEN a ELSE GCD(b, a % b)

\* The rational n/d (d # 0) in lowest terms with a positive denominator.
Rat(n, d) ==
    LET g == GCD(Abs(n), Abs(d))
        s == IF d < 0 THEN -1 ELSE 1
    IN  <<(s * n) \div g, (s * d) \div g>>

Zero == <<0, 1>>
One == <<1, 1>>

Num(i) == <<i, 1>>

\* x + y
Add(x, y) ==
    IF IsNaN(x) \/ IsNaN(y) THEN NaN
    ELSE LET g == GCD(x[2], y[2])
             l == (x[2] \div g) * y[2]
         IN  Rat(x[1] * (l \div x[2]) + y[1] * (l \div y[2]), l)

Neg(x) == IF IsNaN(x) THEN NaN ELSE <<-x[1], x[2]>>

\* x - y
Sub(x, y) == Add(x, Neg(y))

\* x * y; NaN if either factor is NaN, also when the other one is 0
Mul(x, y) ==
    IF IsNaN(x) \/ IsNaN(y) THEN NaN
    ELSE LET g1 == GCD(Abs(x[1]), y[2])
             g2 == GCD(Abs(y[1]), x[2])
         IN  Rat((x[1] \div g1) * (y[1] \div g2), (x[2] \div g2) * (y[2] \div g1))

\* x / y.  The model's prices are positive, so y is NaN or a positive number
\* wherever the program divides.
Div(x, y) ==
    IF IsNaN(x) \/ IsNaN(y) \/ y[1] = 0 THEN NaN
    ELSE Mul(x, Rat(y[2], y[1]))

\* x < y on floats: FALSE when either side is NaN
Less(x, y) == ~IsNaN(x) /\ ~IsNaN(y) /\ x[1] * y[2] < y[1] * x[2]


(***************************************************************************)
(* A pandas Series: its index (a set of date labels, kept sorted by        *)
(* pandas) and a value per label.                                          *)
(***************************************************************************)
SeriesOver(dates, vals) ==
    UNION {{[idx |-> S, val |-> f] : f \in [S -> vals]} : S \in SUBSET dates}

Max(S) == CHOOSE x \in S : \A y \in S : y <= x

\* The elements of a finite set of dates in ascending order: sorted(set(...))
RECURSIVE Sorted(_)
Sorted(S) ==
    IF S = {} THEN <<>>
    ELSE LET m == Max(S) IN Append(Sorted(S \ {m}), m)

\* reindex(index, method='bfill'): the value at the earliest label at or after
ReindexBackfill(series, index) ==
    [d \in index |->
        LET later == {i \in series.idx : i >= d}
        IN  IF later = {} THEN NaN
            ELSE series.val[CHOOSE i \in later : \A j \in later : i <= j]]

\* series.reindex(index, method='ffill'): at each label of index the value at
\* the latest label of the series at or before it, NaN when there is none.
Reindex(series, index) ==
    [d \in index |->
        LET prior == {i \in series.idx : i <= d}
        IN  IF prior = {} THEN NaN ELSE series.val[Max(prior)]]

\* series.fillna(v)
FillNa(f, v) == [d \in DOMAIN f |-> IF IsNaN(f[d]) THEN v ELSE f[d]]

(***************************************************************************)
(* Inputs of the constructor.                                              *)
(***************************************************************************)
PriceVals == {Num(100), Num(110)}
SigVals == {Zero, One}
SlippageVals == {Zero, Rat(1, 10)}
CommissionVals == {Zero, One}
InitialCapital == Num(1000)

\* The scenario of the specification: one instrument observed on five dates.
ScenarioPrices == <<Num(100), Num(105), Num(95), Num(110), Num(120)>>
ScenarioDates == DOMAIN ScenarioPrices

\* price tables: every instrument has at least one observation
NativePrices == {p \in SeriesOver(1..MaxDates, PriceVals) : p.idx # {}}

\* weights=None: weights or {t: 1/len(data_dict) for t in data_dict}
DefaultWeights(nn) == [t \in 1..nn |-> Rat(1, nn)]

\* master_index: the sorted union of the price tables' indexes
MasterIndex(nat) == Sorted(UNION {nat[t].idx : t \in DOMAIN nat})

Range(q) == {q[i] : i \in DOMAIN q}

\* self.data[t] after the constructor's loop
AlignData(series, mi) == Reindex(series, Range(mi))

\* self.signals[t] after the constructor's loop
AlignSignal(series, mi) == FillNa(Reindex(series, Range(mi)), Zero)

\* every aligned signal series the constructor can produce over a calendar
AlignedSignals(mi) ==
    {AlignSignal(sg, mi) : sg \in SeriesOver(Range(mi), SigVals)}

VARIABLES
    n,               \* number of instruments; the tickers are 1..n in dict order
    data,            \* self.data[t]['Close'], aligned: date -> price
    signals,         \* self.signals[t], aligned: date -> signal
    weights,         \* self.weights
    initial_capital, \* self.initial_capital
    slippage,        \* self.slippage
    commission,      \* self.commission
    master_index,    \* self.master_index, a sorted sequence of dates
    pc,              \* "ready" | "loop" | "return" | "done"
    di,              \* position of dt in master_index
    tk,              \* the instrument the inner loop handles next
    portfolio_cash,
    portfolio_value,
    equity_curve,    \* date -> equity, NaN until written
    trades,          \* per instrument, the sequence of trade records
    positions,
    shares,
    results,         \* what the calls of run() returned, in order
    events,          \* history: the branches the current run() has taken
    strategy,        \* the signal generator that is called
    df,              \* its feature table, a sequence of rows in date order
    s,               \* the signal series it builds, one value per row
    position,        \* its local position
    row,             \* the row its loop handles next
    gpc              \* "idle" | "loop" | "done"

vars == <<n, data, signals, weights, initial_capital, slippage, commission,
          master_index, pc, di, tk, portfolio_cash, portfolio_value,
          equity_curve, trades, positions, shares, results, events,
          strategy, df, s, position, row, gpc>>

gen_vars == <<strategy, df, s, position, row, gpc>>

self_vars == <<n, data, signals, weights, initial_capital, slippage,
               commission, master_index>>

Tickers == 1..n

\* the locals of run() before it is first called
NoRun ==
    /\ pc = "ready"
    /\ di = 1
    /\ tk = 1
    /\ portfolio_cash = Zero
    /\ portfolio_value = Zero
    /\ equity_curve = [d \in Range(master_index) |-> NaN]
    /\ trades = [t \in Tickers |-> <<>>]
    /\ positions = [t \in Tickers |-> 0]
    /\ shares = [t \in Tickers |-> Zero]
    /\ results = <<>>
    /\ events = <<>>

\* PortfolioBacktest(data_dict, signals_dict, None, capital, slip, comm)
Construct(nat, sg, slip, comm) ==
    /\ n = Len(nat)
    /\ master_index = MasterIndex(nat)
    /\ data = [t \in DOMAIN nat |-> AlignData(nat[t], MasterIndex(nat))]
    /\ signals = sg
    /\ weights = DefaultWeights(Len(nat))
    /\ initial_capital = InitialCapital
    /\ slippage = slip
    /\ commission = comm

InitPortfolio ==
    \E nn \in 1..MaxTickers, slip \in SlippageVals, comm \in CommissionVals :
        \E nat \in [1..nn -> NativePrices] :
            \E sg \in [1..nn -> AlignedSignals(MasterIndex(nat))] :
                Construct(nat, sg, slip, comm)

InitScenario ==
    LET nat == <<[idx |-> ScenarioDates,
                  val |-> [d \in ScenarioDates |-> ScenarioPrices[d]]]>>
    IN  \E sg \in [1..1 -> AlignedSignals(MasterIndex(nat))] :
            Construct(nat, sg, Zero, Zero)

\* no signal generator is running
IdleGenerator ==
    /\ strategy = "none"
    /\ df = <<>>
    /\ s = <<>>
    /\ position = 0
    /\ row = 1
    /\ gpc = "idle"

Init == (InitPortfolio \/ InitScenario) /\ NoRun /\ IdleGenerator

(***************************************************************************)
(* PortfolioBacktest.run                                                   *)
(***************************************************************************)
\* dt, the date the outer loop is at
Dt == master_index[di]

\* price = df.at[dt, 'Close']
Price(t) == data[t][Dt]

\* sig = self.signals[t].at[dt]
Sig(t) == signals[t][Dt]

\* a missing shift: yesterday's signal is always read as 0
PrevSigAlwaysZero(t) == Zero

\* prev_sig = self.signals[t].shift(1).at[dt] if dt != self.master_index[0] else 0
PrevSig(t) == IF di # 1 THEN signals[t][master_index[di - 1]] ELSE Zero

\* if sig == 1 and prev_sig == 0
EntryCond(t) == Sig(t) = One /\ PrevSig(t) = Zero

\* an exit whenever the signal is flat
ExitCondSigOnly(t) == Sig(t) = Zero

\* an open position is also closed at the final date
ExitCondCloseAtEnd(t) ==
    \/ (Sig(t) = Zero /\ PrevSig(t) = One /\ positions[t] = 1)
    \/ (di = Len(master_index) /\ positions[t] = 1)

\* elif sig == 0 and prev_sig == 1 and positions[t] == 1
ExitCond(t) == Sig(t) = Zero /\ PrevSig(t) = One /\ positions[t] = 1

\* the weight applied to the initial capital instead of the cash balance
CashAllocOfInitialCapital(t) == Mul(initial_capital, weights[t])

\* cash_alloc = portfolio_cash * self.weights[t]
CashAlloc(t) == Mul(portfolio_cash, weights[t])

\* shares[t] = cash_alloc / price
EntryShares(t) == Div(CashAlloc(t), Price(t))

\* cost = shares[t]*price*(1+self.slippage) + self.commission
EntryCost(t) ==
    Add(Mul(Mul(EntryShares(t), Price(t)), Add(One, slippage)), commission)

\* 'entry_price': price*(1+self.slippage)
EntryPrice(t) == Mul(Price(t), Add(One, slippage))

\* slippage applied in the buyer's direction on an exit
ExitPriceSlippedUp(t) == Mul(Price(t), Add(One, slippage))

\* exit_price = price*(1-self.slippage)
ExitPrice(t) == Mul(Price(t), Sub(One, slippage))

\* proceeds = shares[t]*exit_price - self.commission
Proceeds(t) == Sub(Mul(shares[t], ExitPrice(t)), commission)

\* the position marked at the close of the date before
PositionValueStale(sh, t) ==
    Mul(sh, IF di = 1 THEN data[t][Dt] ELSE data[t][master_index[di - 1]])

\* shares[t]*price, the instrument's term of portfolio_value
PositionValue(sh, t) == Mul(sh, Price(t))

\* the cash balance of the run before is kept
StartCashCarriedOver == IF results = <<>> THEN initial_capital ELSE portfolio_cash

\* portfolio_cash = self.initial_capital
StartCash == initial_capital

\* run() is called: the locals are created
RunBegin ==
    /\ pc = "ready"
    /\ portfolio_cash' = StartCash
    /\ equity_curve' = [d \in Range(master_index) |-> NaN]
    /\ trades' = [t \in Tickers |-> <<>>]
    /\ positions' = [t \in Tickers |-> 0]
    /\ shares' = [t \in Tickers |-> Zero]
    /\ portfolio_value' = Zero
    /\ di' = 1
    /\ tk' = 1
    /\ events' = <<>>
    /\ pc' = "loop"
    /\ UNCHANGED <<self_vars, results, gen_vars>>

\* the entry branch for instrument t
Entry(t) ==
    /\ shares' = [shares EXCEPT ![t] = EntryShares(t)]
    /\ portfolio_cash' = Sub(portfolio_cash, EntryCost(t))
    /\ trades' = [trades EXCEPT ![t] =
                    Append(@, [entry_time |-> Dt,
                               entry_price |-> EntryPrice(t),
                               shares |-> EntryShares(t)])]
    /\ positions' = [positions EXCEPT ![t] = 1]
    /\ events' = Append(events, [time |-> Dt, ticker |-> t, kind |-> "entry"])

\* an exit that leaves the position flag set
ExitKeepsFlag(t) ==
    /\ portfolio_cash' = Add(portfolio_cash, Proceeds(t))
    /\ trades' = [trades EXCEPT ![t] =
                    [@ EXCEPT ![Len(@)] =
                        [entry_time |-> @.entry_time,
                         entry_price |-> @.entry_price,
                         shares |-> @.shares,
                         exit_time |-> Dt,
                         exit_price |-> ExitPrice(t),
                         proceeds |-> Proceeds(t)]]]
    /\ shares' = [shares EXCEPT ![t] = Zero]
    /\ positions' = positions
    /\ events' = Append(events, [time |-> Dt, ticker |-> t, kind |-> "exit"])

\* the exit branch for instrument t
Exit(t) ==
    /\ portfolio_cash' = Add(portfolio_cash, Proceeds(t))
    /\ trades' = [trades EXCEPT ![t] =
                    [@ EXCEPT ![Len(@)] =
                        [entry_time |-> @.entry_time,
                         entry_price |-> @.entry_price,
                         shares |-> @.shares,
                         exit_time |-> Dt,
                         exit_price |-> ExitPrice(t),
                         proceeds |-> Proceeds(t)]]]
    /\ shares' = [shares EXCEPT ![t] = Zero]
    /\ positions' = [positions EXCEPT ![t] = 0]
    /\ events' = Append(events, [time |-> Dt, ticker |-> t, kind |-> "exit"])

\* one pass of the inner loop: instrument tk at date dt
Step ==
    /\ pc = "loop"
    /\ di <= Len(master_index)
    /\ tk <= n
    /\ IF EntryCond(tk) THEN Entry(tk)
       ELSE IF ExitCond(tk) THEN Exit(tk)
       ELSE UNCHANGED <<portfolio_cash, trades, shares, positions, events>>
    /\ portfolio_value' = Add(portfolio_value, PositionValue(shares'[tk], tk))
    /\ tk' = tk + 1
    /\ UNCHANGED <<self_vars, pc, di, equity_curve, results, gen_vars>>

\* the inner loop is over: the date's equity is recorded, the next date begins
EndDate ==
    /\ pc = "loop"
    /\ di <= Len(master_index)
    /\ tk = n + 1
    /\ equity_curve' =
          [equity_curve EXCEPT ![Dt] = Add(portfolio_cash, portfolio_value)]
    /\ portfolio_value' = Zero
    /\ di' = di + 1
    /\ tk' = 1
    /\ UNCHANGED <<self_vars, pc, portfolio_cash, trades, positions, shares,
                   results, events, gen_vars>>

\* return equity_curve, trades
Return ==
    /\ pc = "loop"
    /\ di = Len(master_index) + 1
    /\ results' = Append(results, [equity_curve |-> equity_curve,
                                   trades |-> trades])
    /\ pc' = "done"
    /\ UNCHANGED <<self_vars, di, tk, portfolio_cash, portfolio_value,
                   equity_curve, trades, positions, shares, events, gen_vars>>

Next == RunBegin \/ Step \/ EndDate \/ Return

Spec == Init /\ [][Next]_vars

\* run() is called again on the same object
RunAgain ==
    /\ pc = "done"
    /\ Len(results) < MaxRuns
    /\ portfolio_cash' = StartCash
    /\ equity_curve' = [d \in Range(master_index) |-> NaN]
    /\ trades' = [t \in Tickers |-> <<>>]
    /\ positions' = [t \in Tickers |-> 0]
    /\ shares' = [t \in Tickers |-> Zero]
    /\ portfolio_value' = Zero
    /\ di' = 1
    /\ tk' = 1
    /\ events' = <<>>
    /\ pc' = "loop"
    /\ UNCHANGED <<self_vars, results, gen_vars>>

\* a second PortfolioBacktest is constructed from the same data_dict and
\* signals_dict, which the first constructor has aligned in place
Reconstruct ==
    /\ pc = "done"
    /\ Len(results) < MaxRuns
    /\ LET nat == [t \in Tickers |-> [idx |-> DOMAIN data[t], val |-> data[t]]]
           nsg == [t \in Tickers |->
                     [idx |-> DOMAIN signals[t], val |-> signals[t]]]
           mi == MasterIndex(nat)
       IN  /\ n' = Len(nat)
           /\ master_index' = mi
           /\ data' = [t \in Tickers |-> AlignData(nat[t], mi)]
           /\ signals' = [t \in Tickers |-> AlignSignal(nsg[t], mi)]
           /\ weights' = DefaultWeights(Len(nat))
           /\ equity_curve' = [d \in Range(mi) |-> NaN]
    /\ trades' = [t \in Tickers |-> <<>>]
    /\ positions' = [t \in Tickers |-> 0]
    /\ shares' = [t \in Tickers |-> Zero]
    /\ portfolio_cash' = Zero
    /\ portfolio_value' = Zero
    /\ events' = <<>>
    /\ di' = 1
    /\ tk' = 1
    /\ pc' = "ready"
    /\ UNCHANGED <<initial_capital, slippage, commission, results, gen_vars>>

NextRerun == Next \/ RunAgain \/ Reconstruct

SpecRerun == Init /\ [][NextRerun]_vars

\* the backtests of a single instrument
InitSingle ==
    /\ \/ \E slip \in SlippageVals, comm \in CommissionVals :
            \E nat \in [1..1 -> NativePrices] :
                \E sg \in [1..1 -> AlignedSignals(MasterIndex(nat))] :
                    Construct(nat, sg, slip, comm)
       \/ InitScenario
    /\ NoRun
    /\ IdleGenerator

SpecSingle == InitSingle /\ [][Next]_vars

(***************************************************************************)
(* The signal generators of strategies.py.  A feature table is a sequence  *)
(* of rows in date order; prepare_features has dropped every row with a    *)
(* missing value.                                                          *)
(***************************************************************************)
MaxRows == 3        \* rows of a feature table

\* rsi_high=70
RsiHigh == Num(70)

\* vol_thresh=0.6
VolThresh == Rat(6, 10)

EmaRows ==
    [ema_fast : {Num(1), Num(2), Num(3)},
     ema_slow : {Num(2)},
     rsi : {Num(60), Num(70), Num(80)},
     vol : {Rat(5, 10), Rat(6, 10), Rat(7, 10)}]

BollingerRows ==
    [Close : {Num(1), Num(2), Num(3), Num(4)},
     bb_lower : {Num(2)},
     bb_upper : {Num(4), Num(5)}]

MacdRows ==
    [macd : {Num(-1), Num(0), Num(1)},
     macd_signal : {Num(0), Num(1)}]

RowsOf(strat) ==
    CASE strat = "ema_rsi_vol" -> EmaRows
      [] strat = "bollinger" -> BollingerRows
      [] strat = "macd" -> MacdRows

Strategies == {"ema_rsi_vol", "bollinger", "macd"}

Tables(rows) == UNION {[1..k -> rows] : k \in 0..MaxRows}

\* x > y, x <= y, x >= y on floats: FALSE when either side is NaN
Greater(x, y) == Less(y, x)

LessEq(x, y) == ~IsNaN(x) /\ ~IsNaN(y) /\ ~Less(y, x)

GreaterEq(x, y) == LessEq(y, x)

\* column.shift(1) at row i: the value of the row before, NaN at the first row
Shift(col, i) == IF i = 1 THEN NaN ELSE df[i - 1][col]

\* (a > b) & (a.shift(1) <= b.shift(1)) at row i
CrossUp(a, b, i) ==
    /\ Greater(df[i][a], df[i][b])
    /\ LessEq(Shift(a, i), Shift(b, i))

\* the second comparison copied from cross_up
CrossDownCopied(a, b, i) ==
    /\ Less(df[i][a], df[i][b])
    /\ LessEq(Shift(a, i), Shift(b, i))

\* (a < b) & (a.shift(1) >= b.shift(1)) at row i
CrossDown(a, b, i) ==
    /\ Less(df[i][a], df[i][b])
    /\ GreaterEq(Shift(a, i), Shift(b, i))

\* an entry on the level fast > slow, without a cross
EmaPositionLevelEntry(i) ==
    IF /\ position = 0
       /\ Greater(df[i].ema_fast, df[i].ema_slow)
       /\ Less(df[i].rsi, RsiHigh)
       /\ Less(df[i].vol, VolThresh)
    THEN 1
    ELSE IF /\ position = 1
            /\ \/ CrossDown("ema_fast", "ema_slow", i)
               \/ Greater(df[i].rsi, RsiHigh)
               \/ Greater(df[i].vol, VolThresh)
         THEN 0
         ELSE position

\* ema_rsi_vol_signals: the position after row i
EmaPosition(i) ==
    IF /\ position = 0
       /\ CrossUp("ema_fast", "ema_slow", i)
       /\ Less(df[i].rsi, RsiHigh)
       /\ Less(df[i].vol, VolThresh)
    THEN 1
    ELSE IF /\ position = 1
            /\ \/ CrossDown("ema_fast", "ema_slow", i)
               \/ Greater(df[i].rsi, RsiHigh)
               \/ Greater(df[i].vol, VolThresh)
         THEN 0
         ELSE position

\* the upper band taken for the middle
BandMiddleUpper(i) == df[i].bb_upper

\* sma = (upper + lower)/2
BandMiddle(i) == Div(Add(df[i].bb_upper, df[i].bb_lower), Num(2))

\* bollinger_signals: the position after row i
BollingerPosition(i) ==
    IF position = 0 /\ Less(df[i].Close, df[i].bb_lower) THEN 1
    ELSE IF position = 1 /\ Greater(df[i].Close, BandMiddle(i)) THEN 0
         ELSE position

\* macd_signals: the position after row i
MacdPosition(i) ==
    IF position = 0 /\ CrossUp("macd", "macd_signal", i) THEN 1
    ELSE IF position = 1 /\ CrossDown("macd", "macd_signal", i) THEN 0
         ELSE position

\* a generator is called on a feature table: s = 0.0 everywhere, position = 0
InitSignals ==
    \E strat \in Strategies :
        \E table \in Tables(RowsOf(strat)) :
            /\ strategy = strat
            /\ df = table
            /\ s = [i \in 1..Len(table) |-> Zero]
            /\ position = 0
            /\ row = 1
            /\ gpc = "loop"

\* no backtest exists
IdlePortfolio ==
    /\ n = 0
    /\ data = <<>>
    /\ signals = <<>>
    /\ weights = <<>>
    /\ initial_capital = Zero
    /\ slippage = Zero
    /\ commission = Zero
    /\ master_index = <<>>
    /\ pc = "idle"
    /\ di = 1
    /\ tk = 1
    /\ portfolio_cash = Zero
    /\ portfolio_value = Zero
    /\ equity_curve = <<>>
    /\ trades = <<>>
    /\ positions = <<>>
    /\ shares = <<>>
    /\ results = <<>>
    /\ events = <<>>

portfolio_vars ==
    <<self_vars, pc, di, tk, portfolio_cash, portfolio_value, equity_curve,
      trades, positions, shares, results, events>>

\* one pass of a generator's loop: s.loc[t] = position
GenRow(newpos) ==
    /\ gpc = "loop"
    /\ row <= Len(df)
    /\ position' = newpos
    /\ s' = [s EXCEPT ![row] = Num(newpos)]
    /\ row' = row + 1
    /\ UNCHANGED <<strategy, df, gpc, portfolio_vars>>

EmaStep == strategy = "ema_rsi_vol" /\ GenRow(EmaPosition(row))

BollingerStep == strategy = "bollinger" /\ GenRow(BollingerPosition(row))

MacdStep == strategy = "macd" /\ GenRow(MacdPosition(row))

\* return s
GenReturn ==
    /\ gpc = "loop"
    /\ row = Len(df) + 1
    /\ gpc' = "done"
    /\ UNCHANGED <<strategy, df, s, position, row, portfolio_vars>>

NextSignals == EmaStep \/ BollingerStep \/ MacdStep \/ GenReturn

InitGenerators == InitSignals /\ IdlePortfolio

SpecSignals == InitGenerators /\ [][NextSignals]_vars

(***************************************************************************)
(* Vocabulary of the properties.                                           *)
(***************************************************************************)
Last(q) == q[Len(q)]

IsOpen(rec) == "exit_time" \notin DOMAIN rec

IsClosed(rec) == "exit_time" \in DOMAIN rec

\* the step is an entry (resp. an exit) of instrument tk at date Dt
IsEntryStep == Len(events') = Len(events) + 1 /\ Last(events').kind = "entry"

IsExitStep == Len(events') = Len(events) + 1 /\ Last(events').kind = "exit"

\* the step records the equity of date Dt
IsEndDateStep == pc = "loop" /\ di' = di + 1

\* the events of instrument t before position j of the history
EarlierOf(t, j) == {i \in 1..(j - 1) : events[i].ticker = t}

\* sum over the instruments 1..k with a defined price of shares * price
RECURSIVE DefinedValue(_)
DefinedValue(k) ==
    IF k = 0 THEN Zero
    ELSE Add(DefinedValue(k - 1),
             IF IsNaN(Price(k)) THEN Zero ELSE Mul(shares[k], Price(k)))

\* sum over the instruments 1..k of shares * price at date d
RECURSIVE MarkedValue(_, _)
MarkedValue(k, d) ==
    IF k = 0 THEN Zero
    ELSE Add(MarkedValue(k - 1, d), Mul(shares[k], data[k][d]))

(***************************************************************************)
(* C1.  An instrument whose price is undefined at a date is skipped for    *)
(* that date: it has no entry and no exit there, and the equity recorded   *)
(* for the date is a defined number, cash plus the value of the            *)
(* instruments whose price is defined.                                     *)
(* The code adds shares * NaN = NaN for such an instrument.                *)
(***************************************************************************)
C1_UndefinedPriceSkipped ==
    [][IsEndDateStep =>
        LET undefined == {t \in Tickers : IsNaN(Price(t))}
        IN  undefined # {} =>
              /\ \A t \in undefined : \A i \in DOMAIN events :
                    ~(events[i].ticker = t /\ events[i].time = Dt)
              /\ ~IsNaN(equity_curve'[Dt])
              /\ equity_curve'[Dt] = Add(portfolio_cash, DefinedValue(n))]_vars

(***************************************************************************)
(* C2.  On every entry, with A = weights[t] * cash at that moment, the     *)
(* shares bought are A / (price * (1 + slippage)), cash decreases by       *)
(* A + commission, and the trade record holds the entry price              *)
(* price * (1 + slippage) and that share quantity.                         *)
(* The code buys A / price shares and deducts A * (1 + slippage) +         *)
(* commission.  Stated for the entries at a defined price.                 *)
(***************************************************************************)
C2_EntrySharesAtSlippedPrice ==
    [][(IsEntryStep /\ ~IsNaN(Price(tk))) =>
        LET A == Mul(weights[tk], portfolio_cash)
            slipped == Mul(Price(tk), Add(One, slippage))
            rec == Last(trades'[tk])
        IN  /\ rec.shares = Div(A, slipped)
            /\ shares'[tk] = rec.shares
            /\ rec.entry_price = slipped
            /\ portfolio_cash' = Sub(portfolio_cash, Add(A, commission))]_vars

(***************************************************************************)
(* C3.  For every instrument and date at most one of entry and exit        *)
(* occurs, and an exit occurs only when the instrument's latest earlier    *)
(* event is an entry on a strictly earlier date (the position is open):    *)
(* no exit while flat, no entry and exit on the same date.                 *)
(***************************************************************************)
C3_EntryExitExclusive ==
    /\ \A i, j \in DOMAIN events :
          i # j => ~(events[i].ticker = events[j].ticker
                     /\ events[i].time = events[j].time)
    /\ \A j \in DOMAIN events :
          events[j].kind = "exit" =>
              LET before == EarlierOf(events[j].ticker, j)
              IN  /\ before # {}
                  /\ events[Max(before)].kind = "entry"
                  /\ events[Max(before)].time < events[j].time

\* an instrument has entered, exited and entered again
C3_Witness ==
    \E i, j, k \in DOMAIN events :
        /\ i < j /\ j < k
        /\ events[i].ticker = events[j].ticker
        /\ events[j].ticker = events[k].ticker
        /\ events[i].kind = "entry"
        /\ events[j].kind = "exit"
        /\ events[k].kind = "entry"

(***************************************************************************)
(* C4.  With signals in {0,1} no entry is executed for an instrument that  *)
(* already has an open position: every entry is the instrument's first     *)
(* event or follows an exit, at most one lot per instrument is open, and   *)
(* the shares held are those of the open lot.                              *)
(***************************************************************************)
C4_NoEntryWhileOpen ==
    /\ \A j \in DOMAIN events :
          events[j].kind = "entry" =>
              LET before == EarlierOf(events[j].ticker, j)
              IN  before # {} => events[Max(before)].kind = "exit"
    /\ \A t \in Tickers :
          /\ \A k \in 1..(Len(trades[t]) - 1) : IsClosed(trades[t][k])
          /\ (trades[t] # <<>> /\ IsOpen(Last(trades[t]))) =>
                shares[t] = Last(trades[t]).shares

\* an instrument holds an open lot over a date on which its signal stays 1
C4_Witness ==
    /\ pc = "loop"
    /\ di > 1
    /\ di <= Len(master_index)
    /\ tk > 1
    /\ Sig(1) = One
    /\ PrevSig(1) = One
    /\ trades[1] # <<>>
    /\ IsOpen(Last(trades[1]))
    /\ positions[1] = 1

(***************************************************************************)
(* C5.  The cash allocated to an entry is weights[t] times the cash        *)
(* balance at the moment of that entry: the shares bought are              *)
(* weights[t] * cash / price for the cash just before the step.  When both *)
(* instruments enter on the first date, the second one is allocated its    *)
(* weight times what the first one's cost has left of the initial capital. *)
(***************************************************************************)
C5_FirstDateInOrder ==
    (/\ n = 2
     /\ trades[1] # <<>>
     /\ trades[2] # <<>>
     /\ trades[1][1].entry_time = master_index[1]
     /\ trades[2][1].entry_time = master_index[1]) =>
        LET p1 == data[1][master_index[1]]
            p2 == data[2][master_index[1]]
            cost1 == Add(Mul(Mul(trades[1][1].shares, p1), Add(One, slippage)),
                         commission)
            left == Sub(initial_capital, cost1)
        IN  trades[2][1].shares = Div(Mul(weights[2], left), p2)

\* C5: every entry allocates weights[t] times the cash of that moment, and
\* same-date entries draw on the shrinking cash in iteration order
C5_AllocationOfCurrentCash ==
    /\ []C5_FirstDateInOrder
    /\ [][IsEntryStep =>
            Last(trades'[tk]).shares =
                Div(Mul(weights[tk], portfolio_cash), Price(tk))]_vars

\* both instruments have entered on the first date at defined prices, and the
\* second one's allocation is not its weight times the start-of-date cash
C5_Witness ==
    /\ n = 2
    /\ trades[1] # <<>>
    /\ trades[2] # <<>>
    /\ trades[1][1].entry_time = master_index[1]
    /\ trades[2][1].entry_time = master_index[1]
    /\ ~IsNaN(trades[1][1].shares)
    /\ ~IsNaN(trades[2][1].shares)
    /\ Mul(trades[2][1].shares, data[2][master_index[1]])
          # Mul(weights[2], initial_capital)

(***************************************************************************)
(* C6.  On every exit all held shares are sold at price * (1 - slippage),  *)
(* the record's proceeds are shares * exit_price - commission and are      *)
(* credited to cash.  With zero slippage and commission, as long as every  *)
(* trade so far is a closed cycle whose exit price is its entry price, the *)
(* cash balance is where it was before the entries: the initial capital.   *)
(***************************************************************************)
C6_RoundTrip ==
    (/\ pc # "ready"
     /\ slippage = Zero
     /\ commission = Zero
     /\ \A t \in Tickers : \A k \in DOMAIN trades[t] :
            /\ IsClosed(trades[t][k])
            /\ ~IsNaN(trades[t][k].entry_price)
            /\ trades[t][k].exit_price = trades[t][k].entry_price) =>
        portfolio_cash = initial_capital

\* C6: every exit sells the whole lot at price * (1 - slippage) and credits
\* shares * exit_price - commission; costless cycles at one price net to zero
C6_ExitProceedsAndRoundTrip ==
    /\ []C6_RoundTrip
    /\ [][IsExitStep =>
            LET rec == Last(trades'[tk])
                sold == Mul(Price(tk), Sub(One, slippage))
            IN  /\ shares[tk] = Last(trades[tk]).shares
                /\ rec.shares = shares[tk]
                /\ rec.exit_price = sold
                /\ rec.proceeds = Sub(Mul(shares[tk], sold), commission)
                /\ portfolio_cash' = Add(portfolio_cash, rec.proceeds)
                /\ shares'[tk] = Zero]_vars

\* a closed cycle at an unchanged price, without slippage and commission
C6_Witness ==
    /\ pc = "done"
    /\ slippage = Zero
    /\ commission = Zero
    /\ \E t \in Tickers : trades[t] # <<>>
    /\ \A t \in Tickers : \A k \in DOMAIN trades[t] :
            /\ IsClosed(trades[t][k])
            /\ ~IsNaN(trades[t][k].entry_price)
            /\ trades[t][k].exit_price = trades[t][k].entry_price
    /\ portfolio_cash = initial_capital

(***************************************************************************)
(* C7.  One instrument, weight 1, no slippage, no commission.  On a date   *)
(* that no trade covers (flat, or the date of an entry) the equity is the  *)
(* equity of the date before, the initial capital on the first date; on a  *)
(* date a trade covers (after its entry, up to and including its exit) the *)
(* equity is the equity at the trade's entry date times price / entry      *)
(* price, which for the first trade is initial capital * price / entry     *)
(* price.                                                                  *)
(***************************************************************************)
Covering(d) ==
    {j \in DOMAIN trades[1] :
        /\ trades[1][j].entry_time < d
        /\ (IsOpen(trades[1][j]) \/ d <= trades[1][j].exit_time)}

\* C7: the equity curve of a single fully weighted instrument without costs
C7_SingleInstrumentEquity ==
    (/\ n = 1
     /\ weights[1] = One
     /\ slippage = Zero
     /\ commission = Zero
     /\ pc \in {"loop", "done"}) =>
        \A k \in 1..(di - 1) :
            LET d == master_index[k]
            IN  IF Covering(d) = {}
                THEN equity_curve[d] =
                        (IF k = 1 THEN initial_capital
                         ELSE equity_curve[master_index[k - 1]])
                ELSE \A j \in Covering(d) :
                        /\ equity_curve[d] =
                              Mul(equity_curve[trades[1][j].entry_time],
                                  Div(data[1][d], trades[1][j].entry_price))
                        /\ j = 1 =>
                              equity_curve[d] =
                                 Mul(initial_capital,
                                     Div(data[1][d], trades[1][1].entry_price))

\* the scenario: prices [100,105,95,110,120], signals [0,1,1,0,0], capital 1000
C7_Witness ==
    /\ pc = "done"
    /\ n = 1
    /\ master_index = <<1, 2, 3, 4, 5>>
    /\ data[1] = [d \in 1..5 |-> ScenarioPrices[d]]
    /\ signals[1] = [d \in 1..5 |-> IF d \in {2, 3} THEN One ELSE Zero]
    /\ initial_capital = Num(1000)
    /\ trades[1][1].shares = Rat(1000, 105)
    /\ equity_curve = [d \in 1..5 |->
                         CASE d \in {1, 2} -> Num(1000)
                           [] d = 3 -> Rat(1000 * 95, 105)
                           [] OTHER -> Rat(1000 * 110, 105)]

(***************************************************************************)
(* C8.  When run() is over, an instrument whose signal is 1 at the final   *)
(* date has a last trade record with the entry fields only (no exit_time,  *)
(* exit_price, proceeds), still holds that record's shares, and the final  *)
(* equity is cash plus the sum of shares * final price.                    *)
(***************************************************************************)
C8_OpenAtEndStaysOpen ==
    pc = "done" =>
        \A t \in Tickers :
            signals[t][Last(master_index)] = One =>
                /\ trades[t] # <<>>
                /\ DOMAIN Last(trades[t]) = {"entry_time", "entry_price", "shares"}
                /\ positions[t] = 1
                /\ shares[t] = Last(trades[t]).shares
                /\ equity_curve[Last(master_index)] =
                      Add(portfolio_cash, MarkedValue(n, Last(master_index)))

\* a position entered before the final date and still held at a defined price
C8_Witness ==
    /\ pc = "done"
    /\ \E t \in Tickers :
          /\ signals[t][Last(master_index)] = One
          /\ trades[t] # <<>>
          /\ Last(trades[t]).entry_time < Last(master_index)
          /\ ~IsNaN(shares[t])
          /\ shares[t] # Zero
    /\ ~IsNaN(equity_curve[Last(master_index)])

(***************************************************************************)
(* C9.  Every call of run() on the same object returns the same equity     *)
(* curve and trade log, and every run starts from cash = initial capital   *)
(* with zero shares, no open position and no trade.                        *)
(***************************************************************************)
C9_RerunIdentical ==
    /\ \A i, j \in DOMAIN results : results[i] = results[j]
    /\ (pc = "loop" /\ di = 1 /\ tk = 1) =>
          /\ portfolio_cash = initial_capital
          /\ portfolio_value = Zero
          /\ \A t \in Tickers :
                shares[t] = Zero /\ positions[t] = 0 /\ trades[t] = <<>>
          /\ \A d \in Range(master_index) : IsNaN(equity_curve[d])

\* a second run has returned after a first one that ended with an open
\* position and a cash balance other than the initial capital
C9_Witness ==
    /\ Len(results) = 2
    /\ pc = "done"
    /\ portfolio_cash # initial_capital
    /\ \E t \in Tickers :
          /\ results[1].trades[t] # <<>>
          /\ IsOpen(Last(results[1].trades[t]))

(***************************************************************************)
(* C10.  Each of the three generators returns an all-flat series for a     *)
(* feature table with fewer than 2 rows, whatever the row holds.           *)
(* bollinger_signals compares the row with itself only and returns 1 for a *)
(* single row whose Close is below bb_lower.                               *)
(***************************************************************************)
C10_ShortTableAllFlat ==
    (gpc = "done" /\ Len(df) < 2) => \A i \in DOMAIN s : s[i] = Zero

(***************************************************************************)
(* C11.  ema_rsi_vol_signals starts flat.  At each row it goes from flat   *)
(* to long exactly when fast <= slow on the row before, fast > slow on     *)
(* this row, rsi < 70 and vol < 0.6; it goes from long to flat exactly     *)
(* when fast crosses below slow, or rsi > 70, or vol > 0.6; otherwise the  *)
(* position is unchanged, and it is the signal of the row.  Whenever the   *)
(* signal is 1, rsi and vol of that row do not exceed their thresholds.    *)
(***************************************************************************)
C11_EmittedWithinFilters ==
    strategy = "ema_rsi_vol" =>
        /\ row = 1 => position = 0
        /\ \A i \in 1..(row - 1) :
              /\ s[i] \in {Zero, One}
              /\ s[i] = One =>
                    /\ ~Less(Num(70), df[i].rsi)
                    /\ ~Less(Rat(6, 10), df[i].vol)

C11_TrendCrossover ==
    /\ []C11_EmittedWithinFilters
    /\ [][(strategy = "ema_rsi_vol" /\ row' = row + 1) =>
            LET now == df[row]
                up == /\ row > 1
                      /\ ~Less(df[row - 1].ema_slow, df[row - 1].ema_fast)
                      /\ Less(now.ema_slow, now.ema_fast)
                down == /\ row > 1
                        /\ ~Less(df[row - 1].ema_fast, df[row - 1].ema_slow)
                        /\ Less(now.ema_fast, now.ema_slow)
                enter == up /\ Less(now.rsi, Num(70)) /\ Less(now.vol, Rat(6, 10))
                leave == down \/ Less(Num(70), now.rsi) \/ Less(Rat(6, 10), now.vol)
            IN  /\ position = 0 => (position' = 1 <=> enter)
                /\ position = 1 => (position' = 0 <=> leave)
                /\ position' \in {0, 1}
                /\ s'[row] = Num(position')]_vars

\* a cross-up is refused by the oscillator, and the oscillator coming back
\* into range on the next row, with fast still above slow, brings no entry
C11_Witness ==
    /\ strategy = "ema_rsi_vol"
    /\ gpc = "done"
    /\ Len(df) = 3
    /\ Less(df[1].ema_fast, df[1].ema_slow)
    /\ Less(df[2].ema_slow, df[2].ema_fast)
    /\ Less(Num(70), df[2].rsi)
    /\ Less(df[3].ema_slow, df[3].ema_fast)
    /\ Less(df[3].rsi, Num(70))
    /\ Less(df[3].vol, Rat(6, 10))
    /\ s = <<Zero, Zero, Zero>>

(***************************************************************************)
(* C12.  bollinger_signals starts flat.  At each row it goes from flat to  *)
(* long exactly when Close < bb_lower and from long to flat exactly when   *)
(* Close > (bb_upper + bb_lower) / 2; otherwise the position is unchanged. *)
(* The signal of the row is the position after the decision, 0 or 1.       *)
(***************************************************************************)
C12_BandStartsFlat ==
    strategy = "bollinger" =>
        /\ row = 1 => position = 0
        /\ \A i \in 1..(row - 1) : s[i] \in {Zero, One}

C20_LongOnlyAboveReference ==
    /\ strategy = "macd" =>
          \A i \in 1..(row - 1) :
              s[i] = One => ~Less(df[i].macd, df[i].macd_signal)
    /\ strategy = "ema_rsi_vol" =>
          \A i \in 1..(row - 1) :
              s[i] = One => ~Less(df[i].ema_fast, df[i].ema_slow)
    /\ (strategy \in {"macd", "ema_rsi_vol"} /\ row > 1) => s[1] = Zero

\* macd above its signal line on the first row without an entry, an entry on
\* the cross-up of the third row after a row below
C20_Witness ==
    /\ strategy = "macd"
    /\ gpc = "done"
    /\ Len(df) = 3
    /\ Less(df[1].macd_signal, df[1].macd)
    /\ Less(df[2].macd, df[2].macd_signal)
    /\ s = <<Zero, Zero, One>>

(***************************************************************************)
(* C19.  The trade log is well formed: for each instrument the records are *)
(* in strictly increasing entry_time order; every record but possibly the  *)
(* last has exit fields, with exit_time strictly later than its entry_time *)
(* and not later than the entry_time of the next record; the position flag *)
(* is 1 exactly when the last record has no exit fields; and when the flag *)
(* is 0 the held share count is 0.                                         *)
(***************************************************************************)
C19_TradeLogWellFormed ==
    pc \in {"loop", "done"} =>
        \A t \in Tickers :
            LET log == trades[t]
            IN  /\ \A i \in 1..(Len(log) - 1) :
                      /\ log[i].entry_time < log[i + 1].entry_time
                      /\ "exit_time" \in DOMAIN log[i]
                      /\ log[i].exit_time <= log[i + 1].entry_time
                /\ \A i \in 1..Len(log) :
                      "exit_time" \in DOMAIN log[i] =>
                          log[i].entry_time < log[i].exit_time
                /\ positions[t] = 1 <=>
                      (Len(log) > 0 /\ "exit_time" \notin DOMAIN log[Len(log)])
                /\ positions[t] \in {0, 1}
                /\ positions[t] = 0 => shares[t] = Zero

\* an instrument with a closed trade followed by an open one, and another
\* instrument that is flat after its exit
C19_Witness ==
    /\ pc = "done"
    /\ n = 2
    /\ \E t \in Tickers, u \in Tickers :
          /\ t # u
          /\ Len(trades[t]) = 2
          /\ "exit_time" \in DOMAIN trades[t][1]
          /\ "exit_time" \notin DOMAIN trades[t][2]
          /\ positions[t] = 1
          /\ Len(trades[u]) = 1
          /\ "exit_time" \in DOMAIN trades[u][1]
          /\ positions[u] = 0

(***************************************************************************)
(* C17.  With a positive initial capital, positive prices, weights in      *)
(* [0, 1], slippage >= 0 and commission = 0, the cash balance is           *)
(* non-negative after every entry and every exit, whatever the 0/1         *)
(* signals.  Stated for the runs whose cash is a number, which are those   *)
(* that have traded at defined prices only.                                *)
(***************************************************************************)
C17_CashNonNegative ==
    (/\ pc \in {"loop", "done"}
     /\ commission = Zero
     /\ \A t \in Tickers : ~Less(weights[t], Zero) /\ ~Less(One, weights[t])
     /\ ~IsNaN(portfolio_cash))
        => ~Less(portfolio_cash, Zero)

\* instrument t has an event of the kind on the current date
HasEventToday(t, kind) ==
    \E i \in DOMAIN events :
        events[i].ticker = t /\ events[i].time = Dt /\ events[i].kind = kind

\* the shares of instrument t held at the end of the date before the current
\* one, seen once the current date's instruments have all been processed
HeldBefore(t) ==
    IF di = 1 \/ HasEventToday(t, "entry") THEN Zero
    ELSE IF HasEventToday(t, "exit") THEN Last(trades[t]).shares
    ELSE shares[t]

\* sum over the instruments 1..k of held-before shares * (price today - price
\* on the date before); an instrument that held nothing contributes nothing
RECURSIVE HeldGain(_)
HeldGain(k) ==
    IF k = 0 THEN Zero
    ELSE Add(HeldGain(k - 1),
             IF HeldBefore(k) = Zero THEN Zero
             ELSE Mul(HeldBefore(k),
                      Sub(Price(k), data[k][master_index[di - 1]])))

\* sum over the instruments 1..k of the slippage and commission charged by the
\* entry or exit executed on the current date
RECURSIVE ChargedToday(_)
ChargedToday(k) ==
    IF k = 0 THEN Zero
    ELSE Add(ChargedToday(k - 1),
             IF HasEventToday(k, "entry") \/ HasEventToday(k, "exit")
             THEN Add(Mul(Mul(Last(trades[k]).shares, Price(k)), slippage),
                      commission)
             ELSE Zero)

(***************************************************************************)
(* C18.  For every calendar date, equity[t] - equity[t-1] is a number, the *)
(* sum over the instruments of (shares held at the end of date t-1) *      *)
(* (price[t] - price[t-1]) minus the slippage and commission charged by    *)
(* the entries and exits of date t, with initial capital and no shares     *)
(* before the first date.  So with zero slippage and commission the equity *)
(* of the first date is the initial capital.                               *)
(* The code records NaN for a date on which an instrument has no price.    *)
(***************************************************************************)
C18_EquityAccountingIdentity ==
    [][IsEndDateStep =>
        LET before == IF di = 1 THEN initial_capital
                      ELSE equity_curve[master_index[di - 1]]
            now == equity_curve'[Dt]
        IN  ~IsNaN(before) =>
              /\ ~IsNaN(now)
              /\ Sub(now, before) = Sub(HeldGain(n), ChargedToday(n))
              /\ (di = 1 /\ slippage = Zero /\ commission = Zero)
                    => now = initial_capital]_vars

(***************************************************************************)
(* The constructor as a step: the dictionaries as the caller passes them,  *)
(* each price table and signal series on its native dates, and the         *)
(* alignment of lines 25-29 that replaces them in place.                   *)
(***************************************************************************)
\* signal series as passed: any dates, not only the price table's
NativeSignals == SeriesOver(1..MaxDates, SigVals)

\* before PortfolioBacktest(...) is called
InitNative ==
    /\ \E nn \in 1..MaxTickers :
          /\ n = nn
          /\ data \in [1..nn -> NativePrices]
          /\ signals \in [1..nn -> NativeSignals]
    /\ weights = <<>>
    /\ initial_capital = Zero
    /\ slippage = Zero
    /\ commission = Zero
    /\ master_index = <<>>
    /\ pc = "new"
    /\ di = 1
    /\ tk = 1
    /\ portfolio_cash = Zero
    /\ portfolio_value = Zero
    /\ equity_curve = <<>>
    /\ trades = <<>>
    /\ positions = <<>>
    /\ shares = <<>>
    /\ results = <<>>
    /\ events = <<>>
    /\ IdleGenerator

\* slippage=0.0005
DefaultSlippage == Rat(5, 10000)

\* PortfolioBacktest(data_dict, signals_dict, initial_capital=initial_cap):
\* weights, slippage and commission at their defaults
Align ==
    /\ pc = "new"
    /\ slippage' = DefaultSlippage
    /\ commission' = Zero
    /\ weights' = DefaultWeights(n)
    /\ initial_capital' = InitialCapital
    /\ master_index' = MasterIndex(data)
    /\ data' = [t \in Tickers |-> AlignData(data[t], MasterIndex(data))]
    /\ signals' = [t \in Tickers |-> AlignSignal(signals[t], MasterIndex(data))]
    /\ pc' = "ready"
    /\ equity_curve' = [d \in Range(MasterIndex(data)) |-> NaN]
    /\ trades' = [t \in Tickers |-> <<>>]
    /\ positions' = [t \in Tickers |-> 0]
    /\ shares' = [t \in Tickers |-> Zero]
    /\ UNCHANGED <<n, di, tk, portfolio_cash, portfolio_value, results, events,
                   gen_vars>>

NextAlign == Align

SpecAlign == InitNative /\ [][NextAlign]_vars

(***************************************************************************)
(* C13.  After the alignment to the master calendar, the sorted union of   *)
(* all instruments' dates, for every instrument and calendar date d the    *)
(* aligned price is the instrument's latest native observation at or       *)
(* before d, never a later one; it is undefined exactly when there is no   *)
(* observation at or before d, so once defined it stays defined.  The      *)
(* aligned signal is filled the same way, except that an undefined signal  *)
(* becomes 0.                                                              *)
(***************************************************************************)
C13_ForwardFillAlignment ==
    [][(pc = "new" /\ pc' = "ready") =>
        LET calendar == UNION {data[t].idx : t \in Tickers}
            \* i is the latest label of the series at or before d
            LatestAt(series, i, d) ==
                /\ i \in series.idx
                /\ i <= d
                /\ \A j \in series.idx : j <= d => j <= i
        IN  /\ Range(master_index') = calendar
            /\ Len(master_index') = Cardinality(calendar)
            /\ \A i, j \in DOMAIN master_index' :
                  i < j => master_index'[i] < master_index'[j]
            /\ \A t \in Tickers :
                  /\ DOMAIN data'[t] = calendar
                  /\ DOMAIN signals'[t] = calendar
                  /\ \A d \in calendar :
                        /\ \A i \in data[t].idx :
                              LatestAt(data[t], i, d) =>
                                  data'[t][d] = data[t].val[i]
                        /\ IsNaN(data'[t][d]) <=>
                              ~\E i \in data[t].idx : i <= d
                        /\ \A e \in calendar :
                              (d < e /\ ~IsNaN(data'[t][d])) =>
                                  ~IsNaN(data'[t][e])
                        /\ \A i \in signals[t].idx :
                              LatestAt(signals[t], i, d) =>
                                  signals'[t][d] = signals[t].val[i]
                        /\ (~\E i \in signals[t].idx : i <= d) =>
                              signals'[t][d] = Zero]_pc

\* an instrument that starts after the calendar does and misses a later date
\* of it: undefined first, then its observation held over the gap although
\* the other instrument's price has changed
C13_Witness ==
    /\ pc = "ready"
    /\ n = 2
    /\ master_index = <<1, 2, 3>>
    /\ \E t \in Tickers, u \in Tickers :
          /\ IsNaN(data[t][1])
          /\ data[t][2] = Num(100)
          /\ data[t][3] = Num(100)
          /\ data[u][2] = Num(100)
          /\ data[u][3] = Num(110)
          /\ signals[t][1] = Zero
          /\ signals[t][2] = One
          /\ signals[t][3] = One

(***************************************************************************)
(* The statistics of an equity curve: compute_metrics (backtester.py) and  *)
(* cagr, sortino_ratio, calmar_ratio, omega_ratio (app.py).                *)
(*                                                                         *)
(* The curve is a Series on the consecutive days 1..N.  What a function    *)
(* returns is a record: [kind |-> "nan"] for the float nan,                *)
(* [kind |-> "raise"] when it raises, and [kind |-> "num", sign |-> ...]   *)
(* for a number, with its exact value val where the value is rational.     *)
(* Powers, square roots and standard deviations are not rational: of such  *)
(* a number the model keeps the sign, and of a standard deviation whether  *)
(* it is nan (fewer than two values), zero (all values equal) or positive. *)
(***************************************************************************)
MaxObs == 3         \* observations of an equity curve
EquityVals == {Num(90), Num(100), Num(110)}

\* every equity curve of 1..MaxObs positive observations
EquityCurves == UNION {[1..k -> EquityVals] : k \in 1..MaxObs}

Sign(x) == IF Less(x, Zero) THEN -1 ELSE IF Less(Zero, x) THEN 1 ELSE 0

FloatNaN == [kind |-> "nan"]
Raised == [kind |-> "raise"]
Float(sg) == [kind |-> "num", sign |-> sg]
Exact(x) == IF IsNaN(x) THEN FloatNaN
            ELSE [kind |-> "num", sign |-> Sign(x), val |-> x]

\* equity.pct_change(): NaN at the first label
PctChange(eq) ==
    [i \in DOMAIN eq |->
        IF i = 1 THEN NaN ELSE Sub(Div(eq[i], eq[i - 1]), One)]

\* series.dropna()
DropNa(f) == [i \in {j \in DOMAIN f : ~IsNaN(f[j])} |-> f[i]]

\* series[series < x]
Below(f, x) == [i \in {j \in DOMAIN f : Less(f[j], x)} |-> f[i]]

\* series[series > x]
Above(f, x) == [i \in {j \in DOMAIN f : Less(x, f[j])} |-> f[i]]

\* series.sum(): 0 for an empty series
RECURSIVE SeriesSum(_)
SeriesSum(f) ==
    IF DOMAIN f = {} THEN Zero
    ELSE LET i == CHOOSE j \in DOMAIN f : TRUE
         IN  Add(f[i], SeriesSum([j \in DOMAIN f \ {i} |-> f[j]]))

\* series.std(), ddof = 1
Std(f) ==
    IF Cardinality(DOMAIN f) < 2 THEN "nan"
    ELSE IF \A i, j \in DOMAIN f : f[i] = f[j] THEN "zero"
    ELSE "pos"

\* the maximum of the whole curve taken for the running maximum
CumMaxWholeCurve(eq, t) ==
    CHOOSE x \in {eq[i] : i \in DOMAIN eq} :
        \A i \in DOMAIN eq : ~Less(x, eq[i])

\* equity.cummax() at label t
CumMax(eq, t) ==
    CHOOSE x \in {eq[i] : i \in 1..t} : \A i \in 1..t : ~Less(x, eq[i])

\* drawdown = (equity.cummax() - equity) / equity.cummax()
Drawdown(eq, t) == Div(Sub(CumMax(eq, t), eq[t]), CumMax(eq, t))

\* max_dd = drawdown.max()
MaxDrawdown(eq) ==
    CHOOSE x \in {Drawdown(eq, t) : t \in DOMAIN eq} :
        \A t \in DOMAIN eq : ~Less(x, Drawdown(eq, t))

\* total_return = equity_curve.iloc[-1]/equity_curve.iloc[0]-1
TotalReturn(eq) == Sub(Div(eq[Len(eq)], eq[1]), One)

\* ann_return: (1+total_return)**(252/len) - 1 has the sign of total_return
AnnReturn(eq) ==
    IF Len(eq) > 1 THEN Float(Sign(TotalReturn(eq))) ELSE Exact(Zero)

\* ann_vol = returns.std() * np.sqrt(252), returns = pct_change().fillna(0)
AnnVol(eq) ==
    LET sd == Std(FillNa(PctChange(eq), Zero))
    IN  IF sd = "nan" THEN FloatNaN
        ELSE IF sd = "zero" THEN Float(0) ELSE Float(1)

\* sharpe = ann_return / ann_vol if ann_vol > 0 else np.nan
Sharpe(eq) ==
    IF AnnVol(eq).kind = "num" /\ AnnVol(eq).sign = 1
    THEN Float(AnnReturn(eq).sign)
    ELSE FloatNaN

\* PortfolioBacktest.compute_metrics
compute_metrics(eq) ==
    [total_return |-> Exact(TotalReturn(eq)),
     annualized_return |-> AnnReturn(eq),
     annualized_vol |-> AnnVol(eq),
     sharpe |-> Sharpe(eq),
     max_drawdown |-> Exact(MaxDrawdown(eq))]

\* years = (equity.index[-1] - equity.index[0]).days / 365.25
Years(eq) == Div(Num(Len(eq) - 1), Rat(36525, 100))

\* cagr: 1 / years raises ZeroDivisionError when years is 0.0; otherwise
\* ratio ** (1 / years) - 1 has the sign of ratio - 1
cagr(eq) ==
    IF Years(eq) = Zero THEN Raised
    ELSE Float(Sign(Sub(Div(eq[Len(eq)], eq[1]), One)))

\* sortino_ratio: nan when downside.std() is 0; when downside.std() is nan the
\* test nan == 0 is False and the quotient by nan is nan
sortino_ratio(eq) ==
    LET returns == DropNa(PctChange(eq))
        downside == Below(returns, Zero)
    IN  IF Std(downside) = "zero" THEN FloatNaN
        ELSE IF Std(downside) = "nan" THEN FloatNaN
        ELSE Float(Sign(SeriesSum(returns)))

\* calmar_ratio: the exception of cagr propagates
calmar_ratio(eq) ==
    IF cagr(eq).kind = "raise" THEN Raised
    ELSE IF Less(Zero, MaxDrawdown(eq)) THEN Float(cagr(eq).sign)
    ELSE FloatNaN

\* omega_ratio, target = 0.0
omega_ratio(eq) ==
    LET returns == DropNa(PctChange(eq))
        gains == SeriesSum(Above(returns, Zero))
        losses == Neg(SeriesSum(Below(returns, Zero)))
    IN  IF losses # Zero THEN Exact(Div(gains, losses)) ELSE FloatNaN

\* the report of app.py has an equity curve and has called nothing yet
InitMetrics ==
    /\ equity_curve \in EquityCurves
    /\ master_index = [i \in DOMAIN equity_curve |-> i]
    /\ results = <<>>
    /\ pc = "metrics"
    /\ n = 1
    /\ data = <<>>
    /\ signals = <<>>
    /\ weights = DefaultWeights(1)
    /\ initial_capital = InitialCapital
    /\ slippage = DefaultSlippage
    /\ commission = Zero
    /\ di = 1
    /\ tk = 1
    /\ portfolio_cash = Zero
    /\ portfolio_value = Zero
    /\ trades = <<>>
    /\ positions = <<>>
    /\ shares = <<>>
    /\ events = <<>>
    /\ IdleGenerator

\* one call of a statistic on the equity curve; an exception ends the report
Call(name, out) ==
    /\ pc = "metrics"
    /\ name \notin DOMAIN results
    /\ results' = (name :> out) @@ results
    /\ pc' = IF out = Raised THEN "raised" ELSE "metrics"
    /\ UNCHANGED <<self_vars, di, tk, portfolio_cash, portfolio_value,
                   equity_curve, trades, positions, shares, events, gen_vars>>

CallComputeMetrics == Call("compute_metrics", compute_metrics(equity_curve))
CallCagr == Call("cagr", cagr(equity_curve))
CallSortino == Call("sortino_ratio", sortino_ratio(equity_curve))
CallCalmar == Call("calmar_ratio", calmar_ratio(equity_curve))
CallOmega == Call("omega_ratio", omega_ratio(equity_curve))

NextMetrics ==
    \/ CallComputeMetrics
    \/ CallCagr
    \/ CallSortino
    \/ CallCalmar
    \/ CallOmega

SpecMetrics == InitMetrics /\ [][NextMetrics]_vars

\* the function has been called on the curve and has returned or raised
Called(name) == name \in DOMAIN results

(***************************************************************************)
(* C14.  Every statistic that is undefined on a degenerate equity curve is *)
(* returned as nan, not as 0, and computing it never raises: Sharpe on a   *)
(* constant curve, Calmar with zero maximum drawdown, Sortino with no      *)
(* negative-return day, Omega with a zero denominator, and Sharpe, CAGR,   *)
(* Calmar, Sortino and Omega of a single-observation curve.                *)
(* cagr raises ZeroDivisionError on a single observation.                  *)
(***************************************************************************)
C14_DegenerateStatisticsAreNaN ==
    LET eq == equity_curve
        returns == [i \in 2..Len(eq) |-> Sub(Div(eq[i], eq[i - 1]), One)]
        constant == \A i \in DOMAIN eq : eq[i] = eq[1]
        neverFalls == \A i, j \in DOMAIN eq : i < j => ~Less(eq[j], eq[i])
        noLoss == \A i \in DOMAIN returns : ~Less(returns[i], Zero)
        single == Len(eq) = 1
    IN  pc \in {"metrics", "raised"} =>
          /\ pc # "raised"
          /\ \A f \in DOMAIN results : results[f] # Raised
          /\ (Called("compute_metrics") /\ (constant \/ single)) =>
                results["compute_metrics"].sharpe = FloatNaN
          /\ (Called("calmar_ratio") /\ (neverFalls \/ single)) =>
                results["calmar_ratio"] = FloatNaN
          /\ (Called("sortino_ratio") /\ (noLoss \/ single)) =>
                results["sortino_ratio"] = FloatNaN
          /\ (Called("omega_ratio") /\ (noLoss \/ single)) =>
                results["omega_ratio"] = FloatNaN
          /\ (Called("cagr") /\ single) => results["cagr"] = FloatNaN

(***************************************************************************)
(* C15.  max_drawdown is the maximum over t of                             *)
(* (running_max[t] - equity[t]) / running_max[t].  For a positive equity   *)
(* curve it is 0 exactly when the curve never falls below its running      *)
(* maximum, and strictly between 0 and 1 otherwise.                        *)
(***************************************************************************)
C15_MaxDrawdownRange ==
    (pc = "metrics" /\ Called("compute_metrics")) =>
        LET eq == equity_curve
            dd == results["compute_metrics"].max_drawdown.val
            \* m is the running maximum at t
            RunningMax(m, t) ==
                /\ \E i \in 1..t : eq[i] = m
                /\ \A i \in 1..t : ~Less(m, eq[i])
            \* x is the drawdown at t
            DrawdownAt(x, t) ==
                \E i \in 1..t : RunningMax(eq[i], t)
                                /\ x = Div(Sub(eq[i], eq[t]), eq[i])
            neverFalls == \A i, j \in DOMAIN eq : i < j => ~Less(eq[j], eq[i])
        IN  /\ results["compute_metrics"].max_drawdown.kind = "num"
            /\ \E t \in DOMAIN eq : DrawdownAt(dd, t)
            /\ \A t \in DOMAIN eq : \A i \in 1..t :
                  ~Less(dd, Div(Sub(eq[i], eq[t]), eq[i]))
            /\ dd = Zero <=> neverFalls
            /\ ~neverFalls => (Less(Zero, dd) /\ Less(dd, One))

\* a curve that rises and then falls below its maximum: 100, 110, 90
C15_Witness ==
    /\ pc = "metrics"
    /\ Called("compute_metrics")
    /\ equity_curve = <<Num(100), Num(110), Num(90)>>
    /\ results["compute_metrics"].max_drawdown.val = Rat(2, 11)

(***************************************************************************)
(* The run_bt block of app.py for one ticker: the fetched table with its   *)
(* 'Close' and 'Adj_Close' columns (data.py downloads with                 *)
(* auto_adjust=False), prepare_features on a copy of it, the signals of    *)
(* the feature table, and the backtest on the fetched table.               *)
(***************************************************************************)
\* a fetched bar: the raw and the adjusted close
Bars == [Close : PriceVals, Adj_Close : PriceVals]

\* fetched tables on the days 1..k
FetchedTables == UNION {[1..k -> Bars] : k \in 1..MaxDates}

\* data_dict = fetch_price_data(...): nothing prepared, nothing constructed
InitApp ==
    /\ n = 1
    /\ \E raw \in FetchedTables : data = <<raw>>
    /\ signals = <<>>
    /\ weights = <<>>
    /\ initial_capital = Zero
    /\ slippage = Zero
    /\ commission = Zero
    /\ master_index = <<>>
    /\ pc = "app"
    /\ di = 1
    /\ tk = 1
    /\ portfolio_cash = Zero
    /\ portfolio_value = Zero
    /\ equity_curve = <<>>
    /\ trades = <<>>
    /\ positions = <<>>
    /\ shares = <<>>
    /\ results = <<>>
    /\ events = <<>>
    /\ IdleGenerator

\* features_dict[t] = prepare_features(df): on a copy, 'Close' is overwritten
\* with 'Adj_Close'; dropna removes the rows of the indicators' warm-up, a
\* prefix of the table
PrepareFeatures ==
    /\ pc = "app"
    /\ gpc = "idle"
    /\ \E warmup \in 0..Len(data[1]) :
          df' = [d \in (warmup + 1)..Len(data[1]) |->
                    [Close |-> data[1][d].Adj_Close]]
    /\ gpc' = "features"
    /\ UNCHANGED <<portfolio_vars, strategy, s, position, row>>

\* signals_dict[t] = <generator>(features_dict[t]), a 0/1 series on the dates
\* of the feature table, and PortfolioBacktest(data_dict, signals_dict,
\* initial_capital=initial_cap): run() reads the 'Close' column of data_dict
Backtest ==
    /\ pc = "app"
    /\ gpc = "features"
    /\ LET closes == <<[idx |-> DOMAIN data[1],
                        val |-> [d \in DOMAIN data[1] |-> data[1][d].Close]]>>
           mi == MasterIndex(closes)
       IN  /\ master_index' = mi
           /\ data' = [t \in Tickers |-> AlignData(closes[t], mi)]
           /\ \E sg \in SeriesOver(DOMAIN df, SigVals) :
                 /\ DOMAIN df = sg.idx
                 /\ signals' = [t \in Tickers |-> AlignSignal(sg, mi)]
           /\ equity_curve' = [d \in Range(mi) |-> NaN]
    /\ weights' = DefaultWeights(n)
    /\ initial_capital' = InitialCapital
    /\ slippage' = DefaultSlippage
    /\ commission' = Zero
    /\ pc' = "ready"
    /\ trades' = [t \in Tickers |-> <<>>]
    /\ positions' = [t \in Tickers |-> 0]
    /\ shares' = [t \in Tickers |-> Zero]
    /\ UNCHANGED <<n, di, tk, portfolio_cash, portfolio_value, results, events,
                   gen_vars>>

NextApp ==
    \/ PrepareFeatures
    \/ Backtest

SpecApp == InitApp /\ [][NextApp]_vars

(***************************************************************************)
(* C16.  The price at which the simulator executes and marks is the        *)
(* instrument's adjusted close, the series the generators' 'Close' feature *)
(* is taken from: at every date that has a feature row, the price the      *)
(* backtest reads is the 'Close' of that row.                              *)
(* The backtest is constructed on the fetched table, whose 'Close' is the  *)
(* unadjusted close.                                                       *)
(***************************************************************************)
C16_TradesAtAdjustedClose ==
    (pc = "ready" /\ gpc = "features") =>
        \A t \in Tickers : \A d \in DOMAIN df :
            data[t][d] = df[d].Close

====
